---- MODULE Spec2Model ----
(***************************************************************************)
(* Incremental synchronisation of a Zendesk help centre (the content       *)
(* source) with an OpenAI vector store (the index): BatchRunner of         *)
(* batch_runner.py with the parts of scraper.py and uploader.py it calls.  *)
(*                                                                         *)
(* Article ids are 1..MaxId.  Timestamps (an article's updated_at, the     *)
(* last-run timestamp) are clock values 1..MaxClock compared with the      *)
(* order of the clock; 0 stands for None / no file.  The clock advances by *)
(* one when a process ends, so MaxClock also bounds the number of          *)
(* processes.  The index service hands out fresh ids: the file registered  *)
(* for article k by the process of time t is FileId(t, k), the vector      *)
(* store that process creates is t.                                        *)
(***************************************************************************)
EXTENDS Integers, Sequences, FiniteSets, TLC

\* ---------------------------------------------------------------- bounds
MaxId == 2
MaxClock == 2
PageSize == 1
MaxDetectId == 3

\* main(): max_articles = 40 (the default of run_delta_sync and run_full_sync)
max_articles == 40

Ids == 1..MaxId
None == 0

\* ---------------------------------------------------------------- state
VARIABLES
    \* the content source and the wall clock
    source,                 \* id -> updated_at of the published article, None when there is none
    now,
    \* files of the state directory
    last_run_file,          \* ./last_run.txt: the timestamp, None when the file does not exist
    file_mapping_file,      \* ./file_mapping.json: article id -> file id ({} also when missing)
    vector_store_info_file, \* ./vector_store_info.json: the vector store id, None when missing
    articles_dir,           \* ids with a *-{id}.md file in ./articles
    \* the process (a BatchRunner and the position of its run)
    pc,
    last_run_timestamp,
    file_mapping,
    vector_store_id,
    articles,
    changes,
    success,
    exited,                 \* how the last process ended, NoExit while none has or one runs
    \* attach_files_to_vector_store: the status of the file batch it polls, "none"
    \* while there is no batch
    vector_store_files,
    \* what the current run did (history of the run, read by the properties only)
    run

vars == <<source, now, last_run_file, file_mapping_file, vector_store_info_file,
          articles_dir,
          pc, last_run_timestamp, file_mapping, vector_store_id, articles,
          changes, success, exited, vector_store_files, run>>

envVars == <<source, now>>
diskVars == <<last_run_file, file_mapping_file, vector_store_info_file, articles_dir>>
memVars == <<last_run_timestamp, file_mapping, vector_store_id>>

\* ---------------------------------------------------------------- helpers
EmptyMap == [k \in {} |-> None]

Min(a, b) == IF a < b THEN a ELSE b

Range(f) == {f[k] : k \in DOMAIN f}

IdsOf(arts) == {arts[i].id : i \in DOMAIN arts}

\* dict.update
DictUpdate(m, p) ==
    [k \in (DOMAIN m) \cup (DOMAIN p) |-> IF k \in DOMAIN p THEN p[k] ELSE m[k]]

\* del m[k] for every k of ks that is in m
DictRemove(m, ks) == [k \in (DOMAIN m) \ ks |-> m[k]]

\* dict.get(k), None when absent
DictGet(m, k) == IF k \in DOMAIN m THEN m[k] ELSE None

\* The id the index service gives the file registered for article k at time t.
FileId(t, k) == t * (MaxId + 1) + k

\* ---------------------------------------------------------------- scraper
\* The source's article list in listing order (ascending id).
RECURSIVE SourceSeq(_, _)
SourceSeq(src, i) ==
    IF i > MaxId THEN <<>>
    ELSE (IF src[i] # None THEN <<[id |-> i, updated_at |-> src[i]]>> ELSE <<>>)
         \o SourceSeq(src, i + 1)

\* The page `page` of articles.json.
PageOf(src, page) ==
    LET all == SourceSeq(src, 1)
        lo  == (page - 1) * PageSize + 1
        hi  == Min(page * PageSize, Len(all))
    IN  IF lo > Len(all) THEN <<>> ELSE SubSeq(all, lo, hi)

\* ZendeskScraper.fetch_articles_list: pages are requested until max_articles are
\* collected, a page is empty or a request errors (errPage: the page whose request
\* raises RequestException, None for no error); an error only ends the loop.
RECURSIVE FetchPages(_, _, _, _, _)
FetchPages(src, max, errPage, acc, page) ==
    IF Len(acc) >= max THEN [articles |-> acc, error |-> FALSE]
    ELSE IF page = errPage THEN [articles |-> acc, error |-> TRUE]
    ELSE IF PageOf(src, page) = <<>> THEN [articles |-> acc, error |-> FALSE]
    ELSE FetchPages(src, max, errPage, acc \o PageOf(src, page), page + 1)

fetch_articles_list(src, max, errPage) ==
    LET r == FetchPages(src, max, errPage, <<>>, 1)
    IN  [articles |-> SubSeq(r.articles, 1, Min(max, Len(r.articles))),
         error    |-> r.error]

\* ---------------------------------------------------------------- change detection
NoChanges == [new |-> <<>>, updated |-> <<>>, deleted |-> {}, unchanged |-> <<>>]

IsNewMutTruthy(a, mapping) == mapping # EmptyMap /\ a.id \notin DOMAIN mapping

\* if article_id not in self.file_mapping
IsNew(a, mapping) == a.id \notin DOMAIN mapping

IsUpdatedMutNoMarker(a, mapping, marker) ==
    /\ a.id \in DOMAIN mapping
    /\ a.updated_at > marker

IsUpdatedMutGE(a, mapping, marker) ==
    /\ a.id \in DOMAIN mapping
    /\ marker # None
    /\ a.updated_at >= marker

\* elif self.last_run_timestamp and article_updated_at > self.last_run_timestamp
IsUpdated(a, mapping, marker) ==
    /\ a.id \in DOMAIN mapping
    /\ marker # None
    /\ a.updated_at > marker

DeletedIdsMutAll(arts, mapping) == DOMAIN mapping

\* deleted_ids = tracked_article_ids - current_article_ids
DeletedIds(arts, mapping) == (DOMAIN mapping) \ IdsOf(arts)

\* BatchRunner.detect_changes, of the article list, self.file_mapping and
\* self.last_run_timestamp
detect_changes(arts, mapping, marker) ==
    [new       |-> SelectSeq(arts, LAMBDA a : IsNew(a, mapping)),
     updated   |-> SelectSeq(arts, LAMBDA a : IsUpdated(a, mapping, marker)),
     deleted   |-> DeletedIds(arts, mapping),
     unchanged |-> SelectSeq(arts, LAMBDA a : ~IsNew(a, mapping)
                                              /\ ~IsUpdated(a, mapping, marker))]

\* ---------------------------------------------------------------- file names
\* A file name is a sequence of characters.
DigitChars == <<"0", "1", "2", "3", "4", "5", "6", "7", "8", "9">>

RECURSIVE Str(_)
\* str(article_id) of the f-string in save_article_as_markdown
Str(n) ==
    IF n < 10 THEN <<DigitChars[n + 1]>>
    ELSE Str(n \div 10) \o <<DigitChars[(n % 10) + 1]>>

\* ZendeskScraper.create_slug of the title of article k: the words of the
\* title joined by hyphens, digits kept; a title without any word character
\* gives the empty slug.  Titles are not part of the state: odd ids stand for
\* a title like "Top 10", even ids for one like "?!".
create_slug(k) ==
    IF k % 2 = 1 THEN <<"t", "o", "p", "-", "1", "0">> ELSE <<>>

\* save_article_as_markdown: filename = f"{slug}-{article_id}.md"; the stem is
\* the name without ".md"
md_stem(k) == create_slug(k) \o <<"-">> \o Str(k)

article_id_of_stemMutFirst(stem) ==
    LET dashes == {i \in DOMAIN stem : stem[i] = "-"}
        first  == CHOOSE i \in dashes : \A j \in dashes : i <= j
    IN  IF dashes = {} THEN stem ELSE SubSeq(stem, 1, first - 1)

\* upload_files_to_openai: file_path.stem.split('-')[-1]
article_id_of_stem(stem) ==
    LET dashes == {i \in DOMAIN stem : stem[i] = "-"}
        last   == CHOOSE i \in dashes : \A j \in dashes : j <= i
    IN  IF dashes = {} THEN stem ELSE SubSeq(stem, last + 1, Len(stem))

\* The keys of the mapping are the strings str(id); the model writes the key
\* str(k) of an article id k as k, and any other string as -1.
KeyOfStr(str) ==
    IF \E k \in Ids : Str(k) = str THEN CHOOSE k \in Ids : Str(k) = str ELSE -1

\* ---------------------------------------------------------------- uploader
\* VectorStoreUploader.upload_files_to_openai: one client.files.create per file;
\* the file of article k gets a fresh file id when its request succeeds (k \in upOk)
\* and is only logged when it raises.  The result maps the article id read back
\* from the file name to the file id.  It never raises.
upload_files_to_openai(files, upOk, t) ==
    LET done == files \cap upOk
        key(k) == KeyOfStr(article_id_of_stem(md_stem(k)))
    IN  [j \in {key(k) : k \in done} |->
            FileId(t, CHOOSE k \in done : key(k) = j)]

\* VectorStoreUploader.attach_files_to_vector_store: TRUE for a batch that ended
\* 'completed', FALSE for the None it returns otherwise (no file ids: no request is
\* made; the request or a poll raised, or the batch ended failed or cancelled).
attach_files_to_vector_store(vsid, file_ids, attachOk) ==
    /\ file_ids # {}
    /\ vsid # None
    /\ attachOk

\* VectorStoreUploader.remove_files_from_vector_store and delete_files_from_openai:
\* one request per file id, a failing one is logged and skipped; the count they
\* return is not read by the callers.  TRUE when some request failed.
cleanup_failed(file_ids, rmOk, delOk) == file_ids # {} /\ (~rmOk \/ ~delOk)

\* ---------------------------------------------------------------- pipelines
successfully_savedMutBlock(ids, fetchOk) == IF ids \subseteq fetchOk THEN ids ELSE {}

\* The articles appended to successfully_saved by the loop of step 1: those whose
\* fetch_article_content and save_article_as_markdown did not fail (fetchOk); the
\* others go to failed_articles in the except clause and the loop goes on.
successfully_saved(ids, fetchOk) == ids \cap fetchOk

NeedVectorStoreMutAlways(vsid) == TRUE

\* if not self.vector_store_id
NeedVectorStore(vsid) == vsid = None

FailBatchMutNone(failed, saved) == failed

\* for item in successfully_saved: failed_articles.append(...)
FailBatch(failed, saved) == failed \cup saved

\* What the attach step of a pipeline came to: "no_request" when there is no file
\* id (attach_files_to_vector_store returns None before any request), "completed"
\* when the batch ended 'completed', "failed" otherwise.
AttachOutcome(vsid, file_ids, attachOk) ==
    IF file_ids = {} THEN "no_request"
    ELSE IF attach_files_to_vector_store(vsid, file_ids, attachOk) THEN "completed"
    ELSE "failed"

\* BatchRunner.process_new_articles.  fetchOk: the articles whose fetch and save
\* succeed; upOk: the files whose upload succeeds; vsOk, attachOk: whether the
\* vector store creation and the attach succeed.  processed and failed are the two
\* values it returns; the other fields are its effects (ops: the requests to the
\* index service in the order they are made).
process_new_articles(new_articles, vsid, t, fetchOk, upOk, vsOk, attachOk) ==
    LET ids      == IdsOf(new_articles)
        saved    == successfully_saved(ids, fetchOk)
        failed1  == ids \ fetchOk
        uploaded == upload_files_to_openai(saved, upOk, t)
        needVS   == NeedVectorStore(vsid)
        vs       == IF needVS /\ vsOk THEN t ELSE vsid
        file_ids == Range(uploaded)
        attached == attach_files_to_vector_store(vs, file_ids, attachOk)
        createOp == IF needVS THEN <<"create_vector_store">> ELSE <<>>
        attachOp == IF file_ids # {} THEN <<"attach">> ELSE <<>>
        base     == [processed |-> EmptyMap, failed |-> failed1, saved |-> saved,
                     fetched |-> ids, fetchFail |-> failed1,
                     uploaded |-> EmptyMap, vs |-> vsid, vsCreated |-> FALSE,
                     attach |-> "none", calls |-> {}, ops |-> <<>>]
    IN  IF saved = {} THEN base
        ELSE IF needVS /\ ~vsOk THEN
            [base EXCEPT !.uploaded = uploaded,
                         !.calls = {"register", "create_vector_store"},
                         !.ops = <<"register", "create_vector_store">>]
        ELSE IF ~attached THEN
            [base EXCEPT !.failed = FailBatch(failed1, saved), !.uploaded = uploaded,
                         !.vs = vs, !.vsCreated = needVS,
                         !.attach = AttachOutcome(vs, file_ids, attachOk),
                         !.calls = {"register"}
                                   \cup (IF needVS THEN {"create_vector_store"} ELSE {})
                                   \cup (IF file_ids # {} THEN {"attach"} ELSE {}),
                         !.ops = <<"register">> \o createOp \o attachOp]
        ELSE
            [base EXCEPT !.processed = uploaded, !.uploaded = uploaded,
                         !.vs = vs, !.vsCreated = needVS,
                         !.attach = "completed",
                         !.calls = {"register", "attach"}
                                   \cup (IF needVS THEN {"create_vector_store"} ELSE {}),
                         !.ops = <<"register">> \o createOp \o <<"attach">>]

NoOldFileIdMutNever(mapping, k) == FALSE

\* if not old_file_id, of old_file_id = self.file_mapping.get(article_id)
NoOldFileId(mapping, k) == DictGet(mapping, k) = None

ContinueAfterCleanupMutAbort(cleanupFailed) == ~cleanupFailed

\* Steps 2 and 3 of process_updated_articles: an exception of
\* remove_files_from_vector_store or delete_files_from_openai is logged
\* ("Continue anyway"), and the failures inside them are logged per file.
ContinueAfterCleanup(cleanupFailed) == TRUE

old_file_idsMutAll(mapping, tracked, saved) == {DictGet(mapping, k) : k \in tracked}

\* old_file_ids.append(old_file_id), after save_article_as_markdown returned,
\* inside the try of the same article
old_file_ids(mapping, tracked, saved) == {DictGet(mapping, k) : k \in saved}

\* BatchRunner.process_updated_articles.  old: the old file ids handed to
\* remove_files_from_vector_store and delete_files_from_openai (steps 2 and 3);
\* cleanupFailed: whether a request of those two steps failed.
process_updated_articles(updated_articles, mapping, vsid, t, fetchOk, upOk, attachOk, cleanupFailed) ==
    LET ids      == IdsOf(updated_articles)
        noOld    == {k \in ids : NoOldFileId(mapping, k)}
        saved    == successfully_saved(ids \ noOld, fetchOk)
        failed1  == ids \ saved
        old      == old_file_ids(mapping, ids \ noOld, saved)
        uploaded == upload_files_to_openai(saved, upOk, t)
        file_ids == Range(uploaded)
        attached == attach_files_to_vector_store(vsid, file_ids, attachOk)
        base     == [processed |-> EmptyMap, failed |-> failed1, saved |-> saved,
                     fetched |-> ids \ noOld, fetchFail |-> (ids \ noOld) \ fetchOk,
                     uploaded |-> EmptyMap, old |-> {}, attach |-> "none",
                     calls |-> {}, ops |-> <<>>]
        cleaned  == [base EXCEPT !.old = old]
    IN  IF saved = {} THEN base
        ELSE IF ~ContinueAfterCleanup(cleanupFailed) THEN
            [cleaned EXCEPT !.failed = FailBatch(failed1, saved),
                            !.calls = {"detach", "delete"},
                            !.ops = <<"detach", "delete">>]
        ELSE IF ~attached THEN
            [cleaned EXCEPT !.failed = FailBatch(failed1, saved),
                            !.uploaded = uploaded,
                            !.attach = AttachOutcome(vsid, file_ids, attachOk),
                            !.calls = {"detach", "delete", "register"}
                                      \cup (IF file_ids # {} THEN {"attach"} ELSE {}),
                            !.ops = <<"detach", "delete", "register">>
                                    \o (IF file_ids # {} THEN <<"attach">> ELSE <<>>)]
        ELSE
            [cleaned EXCEPT !.processed = uploaded,
                            !.uploaded = uploaded,
                            !.attach = "completed",
                            !.calls = {"detach", "delete", "register", "attach"},
                            !.ops = <<"detach", "delete", "register", "attach">>]

unlink_md_filesMutMissing(k, dir, unlinkOk) == k \in dir /\ k \in unlinkOk

\* for md_file in articles_path.glob(f"*-{article_id}.md"): md_file.unlink()
\* TRUE when no unlink raises: the id has no .md file in the directory (the loop
\* body does not run) or its files are unlinked (unlinkOk).
unlink_md_files(k, dir, unlinkOk) == k \notin dir \/ k \in unlinkOk

file_ids_to_removeMutAll(mapping, tracked, done) == {mapping[k] : k \in tracked}

\* file_ids_to_remove.append(file_id), after the unlink loop of the same id
file_ids_to_remove(mapping, tracked, done) == {mapping[k] : k \in done}

\* BatchRunner.process_deleted_articles.  dir: the ids with a .md file in the
\* articles directory; unlinkOk: the ids whose .md files are unlinked without an
\* error.  file_ids: the file ids handed to remove_files_from_vector_store and
\* delete_files_from_openai (steps 2 and 3).
process_deleted_articles(deleted_ids, mapping, dir, unlinkOk) ==
    LET tracked == {k \in deleted_ids : DictGet(mapping, k) # None}
        done    == {k \in tracked : unlink_md_files(k, dir, unlinkOk)}
        failed  == tracked \ done
        fids    == file_ids_to_remove(mapping, tracked, done)
    IN  [processed |-> done, failed |-> failed, file_ids |-> fids,
         calls |-> IF fids = {} THEN {} ELSE {"detach", "delete"},
         ops   |-> IF fids = {} THEN <<>> ELSE <<"detach", "delete">>]

\* ---------------------------------------------------------------- the run's history
\* One pipeline's part of the history.  batch: the ids handed to it; fetchFail:
\* the ids whose local step raised (fetch and save; the unlink for the deleted
\* pipeline); old: the file ids handed to the detach and delete requests; local:
\* the ids of the deleted pipeline that had a .md file when it started.
PipeBlank == [ran |-> FALSE, batch |-> {}, local |-> {}, fetched |-> {}, fetchFail |-> {},
              saved |-> {}, upFail |-> {}, old |-> {}, attach |-> "none",
              ops |-> <<>>, failed |-> {}, processed |-> {}, cleanupFail |-> FALSE]

BlankRun == [mode |-> "none", path |-> "none",
             mapping0 |-> EmptyMap, marker0 |-> None, vs0 |-> None,
             listError |-> FALSE, totalChanges |-> 0, calls |-> {}, registered |-> {},
             steps |-> <<>>, detected |-> NoChanges,
             new |-> PipeBlank, updated |-> PipeBlank, deleted |-> PipeBlank,
             full |-> PipeBlank,
             mapWritten |-> FALSE, mapWriteFailed |-> FALSE,
             tsWritten |-> FALSE, tsWriteFailed |-> FALSE,
             lateEdits |-> {}]

\* ---------------------------------------------------------------- process end
\* code: the exit status, -1 while there is none, 137 for a killed process
NoExit == [entry |-> "none", success |-> "none", code |-> -1]

\* the two entry points: main.py (the container) and batch_runner.py (the CLI
\* with --force-full)
EntryPoints == {"main.py", "batch_runner.py"}

\* The handlers of the logger main.py's main() holds: setup_logging returns
\* logging.getLogger(__name__), and logging.basicConfig attaches its handlers to
\* the root logger, so this logger has none.
main_logger_handlers == <<>>

\* main.py main(), after run_delta_sync returned: the duration is computed from
\* logger.handlers[1].baseFilename (an IndexError when the logger has fewer than
\* two handlers, caught by `except Exception`: sys.exit(1)), then sys.exit(0) on
\* success and sys.exit(1) otherwise.
main_py_exit(result) ==
    IF Len(main_logger_handlers) < 2 THEN 1
    ELSE IF result = TRUE THEN 0 ELSE 1

\* batch_runner.py main(): exit(0) if success else exit(1)
batch_runner_exit(result) == IF result = TRUE THEN 0 ELSE 1

\* ---------------------------------------------------------------- initial state
\* Nothing persisted, nothing registered; the source holds any set of articles.
Init ==
    /\ source \in [Ids -> {None, 1}]
    /\ now = 1
    /\ last_run_file = None
    /\ file_mapping_file = EmptyMap
    /\ vector_store_info_file = None
    /\ articles_dir = {}
    /\ pc = "idle"
    /\ last_run_timestamp = None
    /\ file_mapping = EmptyMap
    /\ vector_store_id = None
    /\ articles = <<>>
    /\ changes = NoChanges
    /\ success = "none"
    /\ exited = NoExit
    /\ vector_store_files = "none"
    /\ run = BlankRun

\* ---------------------------------------------------------------- environment
\* Between two runs an article is published or edited (updated_at = now) or
\* removed at the source.
SourceEdit ==
    /\ pc = "idle"
    /\ now <= MaxClock
    /\ \E i \in Ids, v \in {None, now} :
        /\ source[i] # v
        /\ source' = [source EXCEPT ![i] = v]
    /\ UNCHANGED <<now, diskVars, memVars, pc, articles, changes, success, exited,
                   vector_store_files, run>>

\* The source is a live help centre: a published article is edited while an
\* incremental run is between its listing (step 1) and the write of the
\* timestamp (step 6).  The run's clock reading of step 6, datetime.now(), is
\* not earlier than the edit, so the edit's updated_at is at most that reading.
SourceEditDuringRun ==
    /\ pc \in {"new", "updated", "deleted", "save"}
    /\ run.path = "delta"
    /\ \E i \in Ids \ run.lateEdits :
        /\ source[i] # None
        /\ source' = [source EXCEPT ![i] = now]
        /\ run' = [run EXCEPT !.lateEdits = @ \cup {i}]
    /\ UNCHANGED <<now, diskVars, memVars, pc, articles, changes, success, exited,
                   vector_store_files>>

\* ---------------------------------------------------------------- process start
\* BatchRunner.__init__ (load_last_run_timestamp, load_file_mapping,
\* load_vector_store_id) and main()'s choice of the entry: force is --force-full.
Start ==
    /\ pc = "idle"
    /\ now <= MaxClock
    /\ \E force \in BOOLEAN :
        /\ pc' = IF force THEN "full" ELSE "delta"
        /\ run' = [BlankRun EXCEPT !.mode = IF force THEN "force_full" ELSE "auto",
                                   !.mapping0 = file_mapping_file,
                                   !.marker0 = last_run_file,
                                   !.vs0 = vector_store_info_file]
    /\ exited' = NoExit
    /\ last_run_timestamp' = last_run_file
    /\ file_mapping' = file_mapping_file
    /\ vector_store_id' = vector_store_info_file
    /\ articles' = <<>>
    /\ changes' = NoChanges
    /\ success' = "none"
    /\ UNCHANGED <<envVars, diskVars, vector_store_files>>

is_first_runMutAnd ==
    /\ last_run_file = None
    /\ file_mapping = EmptyMap

\* BatchRunner.is_first_run: last_run.txt is missing, or file_mapping.json is
\* missing (then the mapping loaded is {}), or the mapping loaded is empty.
is_first_run ==
    \/ last_run_file = None
    \/ file_mapping = EmptyMap

\* The process ends, exit(0) or exit(1), after the run returned.  Time passes
\* until the next scheduled run.
Exit ==
    /\ pc = "done"
    /\ pc' = "idle"
    /\ \E entry \in EntryPoints :
        \* only batch_runner.py takes --force-full; main.py calls run_delta_sync
        /\ run.mode = "force_full" => entry = "batch_runner.py"
        /\ exited' = [entry |-> entry, success |-> success,
                      code |-> IF entry = "main.py" THEN main_py_exit(success)
                               ELSE batch_runner_exit(success)]
    /\ last_run_timestamp' = None
    /\ file_mapping' = EmptyMap
    /\ vector_store_id' = None
    /\ articles' = <<>>
    /\ changes' = NoChanges
    /\ success' = "none"
    /\ run' = BlankRun
    /\ now' = now + 1
    /\ UNCHANGED <<source, diskVars, vector_store_files>>

\* The process is killed between two steps of an incremental run: what is in
\* memory is lost, the files and the index service stay as they are.
Crash ==
    /\ pc \in {"new", "updated", "deleted", "save"}
    /\ pc' = "idle"
    /\ exited' = [entry |-> "none", success |-> "none", code |-> 137]
    /\ last_run_timestamp' = None
    /\ file_mapping' = EmptyMap
    /\ vector_store_id' = None
    /\ articles' = <<>>
    /\ changes' = NoChanges
    /\ success' = "none"
    /\ run' = BlankRun
    /\ now' = now + 1
    /\ UNCHANGED <<source, diskVars, vector_store_files>>

\* ---------------------------------------------------------------- state persistence
\* Step 6 of run_delta_sync / steps 3 and 5 of run_full_sync: save_file_mapping(),
\* then save_last_run_timestamp(now); io names the write that raises ("ok": none).
\* An exception leaves the try block: nothing after it runs, the run returns False.
SaveUpdatedStateMutClean(io) ==
    LET clean == run.new.failed \cup run.updated.failed \cup run.deleted.failed = {}
    IN  [mapWritten |-> io # "mapping",
         tsWritten  |-> io = "ok" /\ clean,
         ok         |-> io = "ok" /\ clean]

SaveUpdatedStateMutSwallow(io) ==
    [mapWritten |-> io # "mapping",
     tsWritten  |-> io = "ok",
     ok         |-> io # "mapping"]

SaveUpdatedStateMutTs(io) ==
    [mapWritten |-> io # "mapping",
     tsWritten  |-> io # "timestamp",
     ok         |-> io = "ok"]

SaveUpdatedState(io) ==
    [mapWritten |-> io # "mapping",
     tsWritten  |-> io = "ok",
     ok         |-> io = "ok"]

IoOutcomes == {"ok", "mapping", "timestamp"}

\* How a batch of registered files fares after the upload: the vector store
\* cannot be created, the attach fails, or both succeed.
StoreOutcomes == {"ok", "no_vector_store", "no_attach"}

\* ---------------------------------------------------------------- full sync
\* ZendeskScraper.scrape_all_articles: the ids whose article was fetched and saved.
scrape_all_articles(src, max, errPage, fetchOk) ==
    IdsOf(fetch_articles_list(src, max, errPage).articles) \cap fetchOk

ReplaceFileMappingMutMerge(mapping, uploaded) == DictUpdate(mapping, uploaded)

\* self.file_mapping = upload_result['uploaded_files']
ReplaceFileMapping(mapping, uploaded) == uploaded

\* BatchRunner.run_full_sync with VectorStoreUploader.upload_all_articles, entered
\* by --force-full or from run_delta_sync when is_first_run().
RunFullSync ==
    /\ \/ pc = "full"
       \/ pc = "delta" /\ is_first_run
    /\ \E errPage \in 0..(MaxId + 1) :
       LET listing == fetch_articles_list(source, max_articles, errPage)
       IN
       /\ errPage = None \/ listing.error
       /\ \E fetchOk \in SUBSET IdsOf(listing.articles) :
          LET scraped == scrape_all_articles(source, max_articles, errPage, fetchOk)
              md      == articles_dir \cup scraped
              hist    == [run EXCEPT !.path = "full", !.listError = listing.error,
                                     !.full = [PipeBlank EXCEPT
                                         !.ran = TRUE,
                                         !.batch = IdsOf(listing.articles),
                                         !.saved = scraped,
                                         !.failed = IdsOf(listing.articles) \ scraped]]
          IN
          /\ articles' = listing.articles
          /\ articles_dir' = md
          /\ changes' = NoChanges
          /\ pc' = "done"
          /\ last_run_timestamp' = last_run_timestamp
          /\ IF scraped = {} THEN
                 \* no article was scraped: return False before any upload
                 /\ success' = FALSE
                 /\ run' = hist
                 /\ UNCHANGED <<last_run_file, file_mapping_file,
                                vector_store_info_file, file_mapping, vector_store_id>>
             ELSE
                 \E upOk \in SUBSET md :
                 LET uploaded == upload_files_to_openai(md, upOk, now)
                     file_ids == Range(uploaded)
                     hist2    == [hist EXCEPT !.registered = file_ids,
                                              !.full.upFail = md \ upOk]
                 IN
                 IF uploaded = EmptyMap THEN
                     \* upload_all_articles returns None: no file was uploaded
                     /\ success' = FALSE
                     /\ run' = [hist2 EXCEPT !.calls = {"register"}]
                     /\ UNCHANGED <<last_run_file, file_mapping_file,
                                    vector_store_info_file, file_mapping,
                                    vector_store_id>>
                 ELSE
                     \E out \in StoreOutcomes, io \in IoOutcomes :
                     LET created  == out # "no_vector_store"
                         attached == attach_files_to_vector_store(
                                         now, file_ids, out # "no_attach")
                         saved    == SaveUpdatedState(io)
                     IN
                     /\ out = "ok" \/ io = "ok"
                     /\ IF ~created \/ ~attached THEN
                            \* create_vector_store or attach_files_to_vector_store
                            \* returns None: upload_all_articles returns None
                            /\ success' = FALSE
                            /\ run' = [hist2 EXCEPT !.calls =
                                          {"register", "create_vector_store"}
                                          \cup (IF created THEN {"attach"} ELSE {})]
                            /\ UNCHANGED <<last_run_file, file_mapping_file,
                                           vector_store_info_file, file_mapping,
                                           vector_store_id>>
                        ELSE
                            /\ vector_store_info_file' = now
                            /\ file_mapping' = ReplaceFileMapping(file_mapping, uploaded)
                            /\ file_mapping_file' = IF saved.mapWritten THEN file_mapping'
                                                    ELSE file_mapping_file
                            /\ vector_store_id' = IF saved.mapWritten THEN now
                                                  ELSE vector_store_id
                            /\ last_run_file' = IF saved.tsWritten THEN now
                                                ELSE last_run_file
                            /\ success' = saved.ok
                            /\ run' = [hist2 EXCEPT
                                          !.calls = {"register", "create_vector_store",
                                                     "attach"},
                                          !.full.processed = DOMAIN uploaded,
                                          !.mapWritten = saved.mapWritten,
                                          !.mapWriteFailed = (io = "mapping"),
                                          !.tsWritten = saved.tsWritten,
                                          !.tsWriteFailed = (io = "timestamp")]
    /\ UNCHANGED <<envVars, exited, vector_store_files>>

\* ---------------------------------------------------------------- incremental sync
\* run_delta_sync, steps 1 and 2: the listing, the change detection and the two
\* early returns (no article listed: False; no change: True).
NoChangesReturnMutNever(total) == FALSE

\* `if total_changes == 0: return True`, before step 3
NoChangesReturn(total) == total = 0

ListingFailedMutNever(arts) == FALSE

\* `if not articles: return False`: the listing is empty, because the source
\* has no article or because the first page could not be fetched
ListingFailed(arts) == arts = <<>>

ListAndDetect ==
    /\ pc = "delta"
    /\ ~is_first_run
    /\ \E errPage \in 0..(MaxId + 1) :
       LET listing == fetch_articles_list(source, max_articles, errPage)
           found   == detect_changes(listing.articles, file_mapping, last_run_timestamp)
           total   == Len(found.new) + Len(found.updated) + Cardinality(found.deleted)
           hist    == [run EXCEPT !.path = "delta", !.listError = listing.error]
       IN
       /\ errPage = None \/ listing.error
       /\ articles' = listing.articles
       /\ IF ListingFailed(listing.articles) THEN
              /\ changes' = NoChanges
              /\ success' = FALSE
              /\ pc' = "done"
              /\ run' = hist
          ELSE
              /\ changes' = found
              /\ success' = IF NoChangesReturn(total) THEN TRUE ELSE success
              /\ pc' = IF NoChangesReturn(total) THEN "done" ELSE "new"
              /\ run' = [hist EXCEPT !.totalChanges = total]
    /\ UNCHANGED <<envVars, diskVars, memVars, exited, vector_store_files>>

NextStepMutOrder(step) ==
    CASE step = "new"     -> "deleted"
      [] step = "deleted" -> "updated"
      [] step = "updated" -> "save"

NextStepMutAbort(step) ==
    IF step = "new" /\ run'.new.saved # {} /\ run'.new.processed = {} THEN "save"
    ELSE IF step = "updated" /\ run'.updated.saved # {} /\ run'.updated.processed = {}
         THEN "save"
    ELSE CASE step = "new"     -> "updated"
           [] step = "updated" -> "deleted"
           [] step = "deleted" -> "save"

\* run_delta_sync: the statement order of steps 3 to 6; no step is left early,
\* the pipelines return their failures instead of raising them.
NextStep(step) ==
    CASE step = "new"     -> "updated"
      [] step = "updated" -> "deleted"
      [] step = "deleted" -> "save"

UpdateFileMappingMutSkip(mapping, processed) == mapping

UpdateFileMappingMutReplace(mapping, processed) == processed

UpdateFileMappingMutPurge(mapping, processed) ==
    DictUpdate(DictRemove(mapping, IdsOf(changes.updated)), processed)

\* self.file_mapping.update(new_processed) / .update(updated_processed)
UpdateFileMapping(mapping, processed) == DictUpdate(mapping, processed)

\* run_delta_sync, step 3: process_new_articles and the update of the mapping in
\* memory (skipped when no article is new).
ProcessNew ==
    /\ pc = "new"
    /\ IF changes.new = <<>> THEN
           /\ run' = [run EXCEPT !.steps = Append(@, "new")]
           /\ UNCHANGED <<diskVars, memVars>>
       ELSE
           \E fetchOk \in SUBSET IdsOf(changes.new) :
           \E upOk \in SUBSET fetchOk :
           \E out \in StoreOutcomes :
           LET r == process_new_articles(changes.new, vector_store_id, now,
                                         fetchOk, upOk, out # "no_vector_store",
                                         out # "no_attach")
           IN
           /\ out = "no_vector_store" => vector_store_id = None /\ fetchOk # {}
           /\ out = "no_attach" => upOk # {}
           /\ articles_dir' = articles_dir \cup r.saved
           /\ vector_store_id' = r.vs
           /\ vector_store_info_file' = IF r.vsCreated THEN r.vs
                                        ELSE vector_store_info_file
           /\ file_mapping' = UpdateFileMapping(file_mapping, r.processed)
           /\ run' = [run EXCEPT !.calls = @ \cup r.calls,
                                 !.registered = @ \cup Range(r.uploaded),
                                 !.steps = Append(@, "new"),
                                 !.new = [ran |-> TRUE,
                                          batch |-> IdsOf(changes.new),
                                          local |-> {},
                                          fetched |-> r.fetched,
                                          fetchFail |-> r.fetchFail,
                                          saved |-> r.saved,
                                          upFail |-> r.saved \ upOk,
                                          old |-> {},
                                          attach |-> r.attach,
                                          ops |-> r.ops,
                                          failed |-> r.failed,
                                          processed |-> DOMAIN r.processed,
                                          cleanupFail |-> FALSE]]
           /\ UNCHANGED <<last_run_file, file_mapping_file, last_run_timestamp>>
    /\ pc' = NextStep(pc)
    /\ UNCHANGED <<envVars, articles, changes, success, exited, vector_store_files>>

\* run_delta_sync, step 4: process_updated_articles and the update of the mapping
\* in memory (skipped when no article is updated).
ProcessUpdated ==
    /\ pc = "updated"
    /\ IF changes.updated = <<>> THEN
           /\ run' = [run EXCEPT !.steps = Append(@, "updated")]
           /\ UNCHANGED <<diskVars, memVars>>
       ELSE
           \E fetchOk \in SUBSET IdsOf(changes.updated) :
           \E upOk \in SUBSET fetchOk :
           \E attachOk \in BOOLEAN, rmOk \in BOOLEAN, delOk \in BOOLEAN :
           LET old == {DictGet(file_mapping, k) :
                          k \in {i \in fetchOk : ~NoOldFileId(file_mapping, i)}}
               r   == process_updated_articles(changes.updated, file_mapping,
                                               vector_store_id, now,
                                               fetchOk, upOk, attachOk,
                                               cleanup_failed(old, rmOk, delOk))
           IN
           /\ upOk # {} \/ attachOk
           /\ r.old # {} \/ (rmOk /\ delOk)
           /\ articles_dir' = articles_dir \cup r.saved
           /\ file_mapping' = UpdateFileMapping(file_mapping, r.processed)
           /\ run' = [run EXCEPT !.calls = @ \cup r.calls,
                                 !.registered = @ \cup Range(r.uploaded),
                                 !.steps = Append(@, "updated"),
                                 !.updated = [ran |-> TRUE,
                                              batch |-> IdsOf(changes.updated),
                                              local |-> {},
                                              fetched |-> r.fetched,
                                              fetchFail |-> r.fetchFail,
                                              saved |-> r.saved,
                                              upFail |-> r.saved \ upOk,
                                              old |-> r.old,
                                              attach |-> r.attach,
                                              ops |-> r.ops,
                                              failed |-> r.failed,
                                              processed |-> DOMAIN r.processed,
                                              cleanupFail |->
                                                  cleanup_failed(r.old, rmOk, delOk)]]
           /\ UNCHANGED <<last_run_file, file_mapping_file, vector_store_info_file,
                          last_run_timestamp, vector_store_id>>
    /\ pc' = NextStep(pc)
    /\ UNCHANGED <<envVars, articles, changes, success, exited, vector_store_files>>

RemoveDeletedMutSkip(mapping, deleted_processed) == mapping

RemoveDeletedMutAll(mapping, deleted_processed) == DictRemove(mapping, changes.deleted)

\* for article_id in deleted_processed: del self.file_mapping[article_id]
RemoveDeleted(mapping, deleted_processed) == DictRemove(mapping, deleted_processed)

\* run_delta_sync, step 5: process_deleted_articles and the removal of the deleted
\* ids from the mapping in memory (skipped when no id is deleted).
ProcessDeleted ==
    /\ pc = "deleted"
    /\ IF changes.deleted = {} THEN
           /\ run' = [run EXCEPT !.steps = Append(@, "deleted")]
           /\ UNCHANGED <<diskVars, memVars>>
       ELSE
           \E unlinkOk \in SUBSET (changes.deleted \cap articles_dir) :
           \E rmOk \in BOOLEAN, delOk \in BOOLEAN :
           LET r == process_deleted_articles(changes.deleted, file_mapping,
                                             articles_dir, unlinkOk)
           IN
           /\ r.file_ids # {} \/ (rmOk /\ delOk)
           /\ articles_dir' = articles_dir \ r.processed
           /\ file_mapping' = RemoveDeleted(file_mapping, r.processed)
           /\ run' = [run EXCEPT !.calls = @ \cup r.calls,
                                 !.steps = Append(@, "deleted"),
                                 !.deleted = [ran |-> TRUE,
                                              batch |-> changes.deleted,
                                              local |-> changes.deleted \cap articles_dir,
                                              fetched |-> {},
                                              fetchFail |-> (changes.deleted
                                                             \cap articles_dir)
                                                            \ unlinkOk,
                                              saved |-> r.processed,
                                              upFail |-> {},
                                              old |-> r.file_ids,
                                              attach |-> "none",
                                              ops |-> r.ops,
                                              failed |-> r.failed,
                                              processed |-> r.processed,
                                              cleanupFail |->
                                                  cleanup_failed(r.file_ids, rmOk, delOk)]]
           /\ UNCHANGED <<last_run_file, file_mapping_file, vector_store_info_file,
                          last_run_timestamp, vector_store_id>>
    /\ pc' = NextStep(pc)
    /\ UNCHANGED <<envVars, articles, changes, success, exited, vector_store_files>>

\* run_delta_sync, step 6: save_file_mapping(), save_last_run_timestamp(now) and
\* the return; an exception of either is caught and the run returns False.
SaveState ==
    /\ pc = "save"
    /\ \E io \in IoOutcomes :
       LET saved == SaveUpdatedState(io)
       IN
       /\ file_mapping_file' = IF saved.mapWritten THEN file_mapping
                               ELSE file_mapping_file
       /\ last_run_file' = IF saved.tsWritten THEN now ELSE last_run_file
       /\ success' = saved.ok
       /\ run' = [run EXCEPT !.mapWritten = saved.mapWritten,
                             !.mapWriteFailed = (io = "mapping"),
                             !.tsWritten = saved.tsWritten,
                             !.tsWriteFailed = (io = "timestamp")]
    /\ pc' = "done"
    /\ UNCHANGED <<envVars, vector_store_info_file, articles_dir, memVars,
                   articles, changes, exited, vector_store_files>>

\* ---------------------------------------------------------------- specification
Next ==
    \/ SourceEdit
    \/ Start
    \/ RunFullSync
    \/ ListAndDetect
    \/ ProcessNew
    \/ ProcessUpdated
    \/ ProcessDeleted
    \/ SaveState
    \/ Exit
    \/ Crash

Spec == Init /\ [][Next]_vars

\* The runner with a source that is also edited while a run is in progress.
NextRace ==
    \/ Next
    \/ SourceEditDuringRun

SpecRace == Init /\ [][NextRace]_vars

\* ---------------------------------------------------------------- change detection alone
\* detect_changes applied to any article list with distinct ids (ids
\* 1..MaxDetectId, in any order), any mapping and any last-run timestamp.
DetectIds == 1..MaxDetectId

Listings ==
    {s \in UNION {[1..n -> [id : DetectIds, updated_at : 1..MaxClock]] :
                  n \in 0..MaxDetectId} :
        \A i, j \in DOMAIN s : i # j => s[i].id # s[j].id}

Mappings == {[k \in S |-> FileId(1, k)] : S \in SUBSET DetectIds}

InitDetect ==
    /\ source = [i \in Ids |-> None]
    /\ now = 1
    /\ last_run_file = None
    /\ file_mapping_file = EmptyMap
    /\ vector_store_info_file = None
    /\ articles_dir = {}
    /\ pc = "detect_in"
    /\ last_run_timestamp \in 0..MaxClock
    /\ file_mapping \in Mappings
    /\ vector_store_id = None
    /\ articles \in Listings
    /\ changes = NoChanges
    /\ success = "none"
    /\ exited = NoExit
    /\ vector_store_files = "none"
    /\ run = [BlankRun EXCEPT !.mapping0 = file_mapping,
                              !.marker0 = last_run_timestamp]

DetectStepMutPop ==
    /\ pc \in {"detect_in", "detect_out"}
    /\ pc' = IF pc = "detect_in" THEN "detect_out" ELSE "detect_twice"
    /\ changes' = detect_changes(articles, file_mapping, last_run_timestamp)
    /\ run' = [run EXCEPT !.detected = changes]
    /\ file_mapping' = DictRemove(file_mapping, IdsOf(articles))
    /\ UNCHANGED <<envVars, diskVars, last_run_timestamp, vector_store_id,
                   articles, success, exited, vector_store_files>>

\* One call of detect_changes(articles), made twice in a row on the same
\* BatchRunner: it reads self.file_mapping and self.last_run_timestamp and
\* assigns neither.  run.detected keeps the result of the call before.
DetectStep ==
    /\ pc \in {"detect_in", "detect_out"}
    /\ pc' = IF pc = "detect_in" THEN "detect_out" ELSE "detect_twice"
    /\ changes' = detect_changes(articles, file_mapping, last_run_timestamp)
    /\ run' = [run EXCEPT !.detected = changes]
    /\ UNCHANGED <<envVars, diskVars, memVars, articles, success, exited,
                   vector_store_files>>

NextDetect == DetectStep

SpecDetect == InitDetect /\ [][NextDetect]_vars

\* ---------------------------------------------------------------- pipelines alone
\* Steps 3 to 6 of run_delta_sync applied to any change set over the ids 1..MaxId
\* (an id is in at most one category), any mapping (an id may be missing from it
\* or have an empty file id), any articles directory and a vector store or none.
PipeMappings ==
    {[k \in S |-> IF k \in T THEN FileId(1, k) ELSE None] :
        S \in SUBSET Ids, T \in SUBSET Ids}

Categories == {"new", "updated", "deleted", "none"}

\* the articles of category c, in listing order, all edited at time t
ArticlesOf(f, c, t) == SourceSeq([i \in Ids |-> IF f[i] = c THEN t ELSE None], 1)

InitPipelines ==
    /\ source = [i \in Ids |-> None]
    /\ now = 2
    /\ last_run_file = 1
    /\ file_mapping \in PipeMappings
    /\ file_mapping_file = file_mapping
    /\ vector_store_id \in {None, 1}
    /\ vector_store_info_file = vector_store_id
    /\ articles_dir \in SUBSET Ids
    /\ pc = "new"
    /\ last_run_timestamp = 1
    /\ articles = <<>>
    /\ \E f \in [Ids -> Categories] :
        changes = [new       |-> ArticlesOf(f, "new", now),
                   updated   |-> ArticlesOf(f, "updated", now),
                   deleted   |-> {i \in Ids : f[i] = "deleted"},
                   unchanged |-> <<>>]
    /\ success = "none"
    /\ exited = NoExit
    /\ vector_store_files = "none"
    /\ run = [BlankRun EXCEPT !.mode = "auto", !.path = "delta",
                              !.mapping0 = file_mapping,
                              !.marker0 = last_run_timestamp,
                              !.vs0 = vector_store_id,
                              !.totalChanges = Len(changes.new) + Len(changes.updated)
                                               + Cardinality(changes.deleted)]

NextPipelines ==
    \/ ProcessNew
    \/ ProcessUpdated
    \/ ProcessDeleted
    \/ SaveState

SpecPipelines == InitPipelines /\ [][NextPipelines]_vars

\* ---------------------------------------------------------------- attach alone
\* attach_files_to_vector_store for any dict of uploaded files (file_mapping
\* here) and a vector store or none, with the index service answering each
\* request with any status or an error.
BatchStatuses == {"in_progress", "cancelling", "completed", "failed", "cancelled"}

\* while vector_store_files.status in ['in_progress', 'cancelling']
NonTerminal == {"in_progress", "cancelling"}

\* the two ways the function returns: the batch, or None
AttachReturned == {"attach_batch", "attach_none"}

InitAttach ==
    /\ source = [i \in Ids |-> None]
    /\ now = 1
    /\ last_run_file = None
    /\ file_mapping_file = EmptyMap
    /\ vector_store_info_file = None
    /\ articles_dir = {}
    /\ pc = "attach_in"
    /\ last_run_timestamp = None
    /\ file_mapping \in Mappings
    /\ vector_store_id \in {None, 1}
    /\ articles = <<>>
    /\ changes = NoChanges
    /\ success = "none"
    /\ exited = NoExit
    /\ vector_store_files = "none"
    /\ run = BlankRun

\* Lines 119-139: no file ids: return None without a request; otherwise the
\* file_batches.create request, which raises (return None; always without a
\* vector store) or answers with a batch in some status.
AttachCreate ==
    /\ pc = "attach_in"
    /\ IF Range(file_mapping) = {} THEN
           /\ pc' = "attach_none"
           /\ UNCHANGED vector_store_files
       ELSE
           \/ /\ pc' = "attach_none"
              /\ UNCHANGED vector_store_files
           \/ /\ vector_store_id # None
              /\ pc' = "attach_while"
              /\ \E st \in BatchStatuses : vector_store_files' = st
    /\ UNCHANGED <<envVars, diskVars, memVars, articles, changes, success, exited, run>>

\* Line 144, the test of the while loop, and lines 153-161 after it: the loop
\* body is entered while the status is not terminal, whatever the number of
\* polls made; then the batch is returned when it completed and None otherwise.
AttachWhile ==
    /\ pc = "attach_while"
    /\ pc' = IF vector_store_files \in NonTerminal THEN "attach_retrieve"
             ELSE IF vector_store_files = "completed" THEN "attach_batch"
             ELSE "attach_none"
    /\ UNCHANGED <<envVars, diskVars, memVars, articles, changes, success, exited,
                   vector_store_files, run>>

\* Lines 145-150, the loop body: time.sleep(2), then file_batches.retrieve, which
\* raises (return None) or answers with the batch in some status.
AttachRetrieve ==
    /\ pc = "attach_retrieve"
    /\ \/ /\ pc' = "attach_none"
          /\ UNCHANGED vector_store_files
       \/ /\ pc' = "attach_while"
          /\ \E st \in BatchStatuses : vector_store_files' = st
    /\ UNCHANGED <<envVars, diskVars, memVars, articles, changes, success, exited, run>>

NextAttach ==
    \/ AttachCreate
    \/ AttachWhile
    \/ AttachRetrieve

\* The process keeps running: a step that can be taken is taken (time.sleep
\* returns, a request returns or raises).
SpecAttach ==
    /\ InitAttach
    /\ [][NextAttach]_vars
    /\ WF_vars(AttachCreate)
    /\ WF_vars(AttachWhile)
    /\ WF_vars(AttachRetrieve)

\* ---------------------------------------------------------------- properties
\* the positions of the list arts whose article is a
Occurs(arts, a) == {i \in DOMAIN arts : arts[i] = a}

\* C1: detect_changes partitions: every listed article is in exactly one of new,
\* updated and unchanged; deleted is the mapping's keys minus the listed ids; the
\* four categories are pairwise disjoint and together are the mapping's keys and
\* the listed ids.
C1_Partition ==
    pc = "detect_out" =>
        LET cur == IdsOf(articles)
            N   == IdsOf(changes.new)
            U   == IdsOf(changes.updated)
            X   == IdsOf(changes.unchanged)
            D   == changes.deleted
        IN  /\ N \cup U \cup X = cur
            /\ N \cap U = {} /\ N \cap X = {} /\ U \cap X = {}
            /\ Len(changes.new) + Len(changes.updated) + Len(changes.unchanged)
                   = Len(articles)
            /\ D = (DOMAIN file_mapping) \ cur
            /\ D \cap (N \cup U \cup X) = {}
            /\ N \cup U \cup X \cup D = (DOMAIN file_mapping) \cup cur

C1_Witness ==
    /\ pc = "detect_out"
    /\ changes.new # <<>>
    /\ changes.updated # <<>>
    /\ changes.deleted # {}

\* C2: with a last-run timestamp, a listed article whose id is in the mapping is
\* unchanged when its updated_at is at most the timestamp and updated when it is
\* greater.
C2_MarkerOrder ==
    (pc = "detect_out" /\ last_run_timestamp # None) =>
        \A i \in DOMAIN articles :
            LET a == articles[i]
            IN  a.id \in DOMAIN file_mapping =>
                    /\ a.updated_at <= last_run_timestamp =>
                           /\ Occurs(changes.unchanged, a) # {}
                           /\ Occurs(changes.updated, a) = {}
                    /\ a.updated_at > last_run_timestamp =>
                           /\ Occurs(changes.updated, a) # {}
                           /\ Occurs(changes.unchanged, a) = {}

C2_Witness ==
    /\ pc = "detect_out"
    /\ last_run_timestamp # None
    /\ \E i, j \in DOMAIN articles :
        /\ articles[i].id \in DOMAIN file_mapping
        /\ articles[j].id \in DOMAIN file_mapping
        /\ articles[i].updated_at = last_run_timestamp
        /\ articles[j].updated_at > last_run_timestamp
        /\ Occurs(changes.unchanged, articles[i]) # {}
        /\ Occurs(changes.updated, articles[j]) # {}

\* C3: with an empty mapping every listed article is new, none is updated and no
\* id is deleted, whatever the last-run timestamp.
C3_EmptyMapping ==
    (pc = "detect_out" /\ file_mapping = EmptyMap) =>
        /\ changes.new = articles
        /\ changes.updated = <<>>
        /\ changes.unchanged = <<>>
        /\ changes.deleted = {}

C3_Witness ==
    /\ pc = "detect_out"
    /\ file_mapping = EmptyMap
    /\ last_run_timestamp # None
    /\ Len(changes.new) >= 2
    /\ \E i \in DOMAIN articles : articles[i].updated_at > last_run_timestamp

\* C4: after the deleted pipeline and the removal that follows it, no id whose
\* .md files were removed is in the mapping, in memory and (once written) on
\* disk, also when the detach or delete requests failed.
C4_DeletionCommit ==
    (pc \in {"save", "done"} /\ run.deleted.ran) =>
        \A k \in run.deleted.processed :
            /\ k \notin DOMAIN file_mapping
            /\ (pc = "done" /\ run.mapWritten) => k \notin DOMAIN file_mapping_file

C4_Witness ==
    /\ pc = "done"
    /\ run.mapWritten
    /\ run.deleted.processed # {}
    /\ run.deleted.cleanupFail

\* C5: when the register (upload) step of the new or updated pipeline fails,
\* every article of the batch is marked failed and none gets a mapping entry.
C5_BatchAtomicity ==
    /\ (run.new.ran /\ run.new.upFail # {}) =>
           /\ run.new.saved \subseteq run.new.failed
           /\ run.new.processed = {}
    /\ (run.updated.ran /\ run.updated.upFail # {}) =>
           /\ run.updated.saved \subseteq run.updated.failed
           /\ run.updated.processed = {}

\* What change detection finds on the next run when the source lists the same
\* articles: the listing of this run against the persisted state.
NextRunChanges == detect_changes(articles, file_mapping_file, last_run_file)

\* C6 (amended): an article that failed in the new pipeline, or an id that
\* failed in the deleted pipeline, of a run that reached its end is new, or
\* deleted, again for the next run over the same listing.
C6_RetryNewDeleted ==
    (pc = "done" /\ run.path = "delta") =>
        /\ run.new.failed \subseteq IdsOf(NextRunChanges.new)
        /\ run.deleted.failed \subseteq NextRunChanges.deleted

C6_Witness ==
    /\ pc = "done"
    /\ run.path = "delta"
    /\ run.mapWritten
    /\ run.tsWritten
    /\ run.new.failed # {}
    /\ run.deleted.failed # {}

\* C6 (as claimed): an article that failed in any pipeline, the updated one
\* included, is in the same category again for the next run.
C6_RetrySameCategory ==
    (pc = "done" /\ run.path = "delta") =>
        /\ run.new.failed \subseteq IdsOf(NextRunChanges.new)
        /\ run.updated.failed \subseteq IdsOf(NextRunChanges.updated)
        /\ run.deleted.failed \subseteq NextRunChanges.deleted

\* A fatal error of the run: the listing failed or a state file could not be
\* written.
FatalError ==
    \/ run.listError
    \/ run.mapWriteFailed
    \/ run.tsWriteFailed

C8_ListingFailure ==
    run.listError =>
        /\ pc = "done" => success = FALSE
        /\ changes.deleted = {}
        /\ run.calls = {}
        /\ file_mapping_file = run.mapping0
        /\ last_run_file = run.marker0

\* C9: when writing the mapping raises, the run returns failure and the last-run
\* timestamp is not written.
C9_MappingWriteFailure ==
    (pc = "done" /\ run.mapWriteFailed) =>
        /\ success = FALSE
        /\ ~run.tsWritten
        /\ last_run_file = run.marker0

C9_Witness ==
    /\ pc = "done"
    /\ run.mapWriteFailed
    /\ run.path = "delta"
    /\ file_mapping # run.mapping0

\* C10 (amended): during the pipelines of an incremental run only the mapping in
\* memory takes their results; the mapping and the timestamp on disk stay as
\* loaded until step 6, so a crash before step 6 loses the results of every
\* category already processed.
C10_PersistOnce ==
    (run.path = "delta" /\ pc \in {"new", "updated", "deleted", "save"}) =>
        /\ file_mapping_file = run.mapping0
        /\ last_run_file = run.marker0
        /\ \A k \in run.new.processed \cup run.updated.processed :
               /\ k \in DOMAIN file_mapping
               /\ file_mapping[k] = FileId(now, k)

C10_Witness ==
    /\ pc = "deleted"
    /\ run.new.processed # {}
    /\ run.updated.processed # {}
    /\ file_mapping_file = run.mapping0

\* C10 (as claimed): when a later category starts, the mapping on disk holds
\* the results of the categories before it.
C10_PersistPerCategory ==
    (run.path = "delta" /\ pc \in {"updated", "deleted", "save"}) =>
        \A k \in run.new.processed :
            /\ k \in DOMAIN file_mapping_file
            /\ file_mapping_file[k] = FileId(now, k)

\* C11: in an incremental run the pipelines run in the order new, updated,
\* deleted: the updated pipeline has acted only after the new step ended, the
\* deleted pipeline only after the updated step ended.
C11_PipelineOrder ==
    run.path = "delta" =>
        /\ \E n \in 0..3 : run.steps = SubSeq(<<"new", "updated", "deleted">>, 1, n)
        /\ pc = "new" => run.steps = <<>>
        /\ run.new.ran => (Len(run.steps) >= 1 /\ run.steps[1] = "new")
        /\ run.updated.ran => (Len(run.steps) >= 2 /\ run.steps[2] = "updated")
        /\ run.deleted.ran => (Len(run.steps) >= 3 /\ run.steps[3] = "deleted")
        /\ pc = "updated" => (~run.updated.ran /\ ~run.deleted.ran)
        /\ pc = "deleted" => ~run.deleted.ran

C11_Witness ==
    /\ pc = "save"
    /\ run.new.ran
    /\ run.deleted.ran
    /\ "register" \in run.calls
    /\ "delete" \in run.calls

\* A pipeline's batch failed: articles were saved for it and none was processed.
BatchFailed(p) == p.ran /\ p.saved # {} /\ p.processed = {}

\* C12: a failed batch of the new pipeline does not keep the updated and the
\* deleted pipelines from running in the same run, nor a failed batch of the
\* updated pipeline the deleted one: every run that started its pipelines and
\* reached step 6 went through all three steps, and each non-empty category was
\* handed to its pipeline.
C12_FailureIsolation ==
    (run.path = "delta" /\ pc \in {"save", "done"} /\ run.totalChanges > 0) =>
        /\ run.steps = <<"new", "updated", "deleted">>
        /\ changes.new # <<>> => run.new.ran
        /\ changes.updated # <<>> => run.updated.ran
        /\ changes.deleted # {} => run.deleted.ran

C12_Witness ==
    /\ pc = "done"
    /\ \/ BatchFailed(run.new) /\ run.deleted.ran /\ run.deleted.processed # {}
       \/ BatchFailed(run.updated) /\ run.deleted.ran /\ run.deleted.processed # {}

\* C13: a full sync that starts with no mapping and no last-run timestamp and
\* succeeds (the listing complete, every listed article scraped, every file
\* uploaded, state written)
\* leaves a mapping whose keys are exactly the listed article ids, and a
\* last-run timestamp.
C13_FullSyncMapping ==
    (/\ pc = "done"
     /\ run.path = "full"
     /\ run.mapping0 = EmptyMap
     /\ run.marker0 = None
     /\ success = TRUE
     /\ ~run.listError
     /\ run.full.failed = {}
     /\ run.full.upFail = {}) =>
        /\ DOMAIN file_mapping_file = IdsOf(articles)
        /\ last_run_file # None

C15_UnchangedUntouched ==
    run.path = "delta" =>
        \A i \in DOMAIN changes.unchanged :
            LET k == changes.unchanged[i].id
            IN  /\ k \notin run.new.batch \cup run.updated.batch \cup run.deleted.batch
                /\ FileId(now, k) \notin run.registered
                /\ k \in DOMAIN file_mapping
                /\ file_mapping[k] = run.mapping0[k]
                /\ k \in DOMAIN file_mapping_file
                /\ file_mapping_file[k] = run.mapping0[k]

C15_Witness ==
    /\ pc = "done"
    /\ run.path = "delta"
    /\ run.mapWritten
    /\ changes.unchanged # <<>>
    /\ run.new.processed \cup run.updated.processed \cup run.deleted.processed # {}

\* C16: with either entry point the process exits with code 0 when the run
\* returned success and with code 1 when it returned failure.
C16_ExitCodes ==
    exited.code \in {0, 1} =>
        /\ exited.success = TRUE => exited.code = 0
        /\ exited.success = FALSE => exited.code = 1

FullSyncMappingFromEmpty ==
    IF run.mapWritten THEN [k \in run.full.processed |-> FileId(now, k)] ELSE EmptyMap

FullSyncMarkerFromEmpty == IF run.tsWritten THEN now ELSE None

\* C18 (amended): a --force-full run that returns success leaves the mapping
\* of the files it registered and the current time as last-run timestamp,
\* whatever mapping and timestamp were on disk before: no entry of the old
\* mapping is kept unless the run registered a file for it.
C18_ForceFullReplaces ==
    (pc = "done" /\ run.mode = "force_full" /\ success = TRUE) =>
        /\ file_mapping_file = FullSyncMappingFromEmpty
        /\ last_run_file = FullSyncMarkerFromEmpty
        /\ \A k \in DOMAIN run.mapping0 :
               k \in DOMAIN file_mapping_file => file_mapping_file[k] # run.mapping0[k]

C18_Witness ==
    /\ pc = "done"
    /\ run.mode = "force_full"
    /\ success = TRUE
    /\ run.marker0 # None
    /\ (DOMAIN run.mapping0) \ (DOMAIN file_mapping_file) # {}

\* C18 (as claimed): at the end of every --force-full run the mapping and the
\* last-run timestamp on disk are those the same run leaves when nothing was
\* persisted before it.
C18_ForceFullIgnoresState ==
    (pc = "done" /\ run.mode = "force_full") =>
        /\ file_mapping_file = FullSyncMappingFromEmpty
        /\ last_run_file = FullSyncMarkerFromEmpty

\* C19: when a run ends, every file it registered with the index service is
\* the value of a mapping entry (no run deletes a file it registered itself).
C19_NoOrphans ==
    pc = "done" => run.registered \subseteq Range(file_mapping)

\* C20: once the updated pipeline's results are in the mapping, the entry of
\* every article it processed is the file registered for it in this run, and the
\* entry of every article it marked failed is the file id loaded at the start.
C20_UpdatedCommit ==
    (run.path = "delta" /\ pc \in {"deleted", "save", "done"} /\ run.updated.ran) =>
        /\ \A k \in run.updated.processed :
               /\ k \in DOMAIN file_mapping
               /\ file_mapping[k] = FileId(now, k)
               /\ file_mapping[k] \in run.registered
               /\ file_mapping[k] # run.mapping0[k]
        /\ \A k \in run.updated.failed :
               /\ k \in DOMAIN file_mapping
               /\ file_mapping[k] = run.mapping0[k]
        /\ (pc = "done" /\ run.mapWritten) =>
               \A k \in run.updated.batch : file_mapping_file[k] = file_mapping[k]

C20_Witness ==
    /\ pc = "done"
    /\ run.mapWritten
    /\ run.updated.processed # {}
    /\ run.updated.failed # {}

\* C21: in the updated pipeline an article for which the mapping holds no file
\* id is recorded as a failure and skipped: it is not fetched or saved, no file
\* is registered for it, it is not among the processed articles, and it has no
\* file id in the mapping afterwards, in memory and on disk.
C21_NoOldIdSkipped ==
    run.updated.ran =>
        \A k \in run.updated.batch :
            DictGet(run.mapping0, k) = None =>
                /\ k \in run.updated.failed
                /\ k \notin run.updated.fetched
                /\ k \notin run.updated.saved
                /\ k \notin run.updated.processed
                /\ FileId(now, k) \notin run.registered
                /\ DictGet(file_mapping, k) = None
                /\ DictGet(file_mapping_file, k) = None

C21_Witness ==
    /\ pc = "done"
    /\ run.mapWritten
    /\ run.updated.processed # {}
    /\ \E k \in run.updated.batch : DictGet(run.mapping0, k) = None

\* C22: register and attach are all-or-nothing per batch in the new and the
\* updated pipeline: of the articles saved for a batch, either every one gets
\* the file registered for it in this run as its mapping entry or none does.
C22_AllOrNothing ==
    \A p \in {run.new, run.updated} :
        (p.ran /\ pc \in {"save", "done"}) =>
            LET committed == {k \in p.saved : DictGet(file_mapping, k) = FileId(now, k)}
            IN  committed = p.saved \/ committed = {}

\* C23: in the new pipeline, when the attach ends in failure every article of
\* the batch (the articles saved for it) is marked failed and none gets a
\* mapping entry; when it ends completed, every article whose file was attached
\* has that file as its mapping entry.
C23_AttachOutcome ==
    (run.new.ran /\ pc \in {"updated", "deleted", "save", "done"}) =>
        /\ run.new.attach = "failed" =>
               /\ run.new.saved \subseteq run.new.failed
               /\ run.new.processed = {}
               /\ \A k \in run.new.batch \ DOMAIN run.mapping0 :
                      k \notin DOMAIN file_mapping
        /\ run.new.attach = "completed" =>
               /\ run.new.processed = run.new.saved \ run.new.upFail
               /\ \A k \in run.new.saved \ run.new.upFail :
                      /\ FileId(now, k) \in run.registered
                      /\ k \in DOMAIN file_mapping
                      /\ file_mapping[k] = FileId(now, k)

C23_Witness ==
    /\ pc = "updated"
    /\ run.new.attach = "failed"
    /\ "attach" \in run.calls
    /\ Cardinality(run.new.saved) >= 2
    /\ run.new.upFail = {}

\* C24: the status polling after an attach request is bounded: the attach step
\* returns in the end, also when the index service answers every poll with a
\* status that is not terminal (in_progress or cancelling).
C24_PollingTerminates == <>(pc \in AttachReturned)

\* C25 (amended): an incremental run creates a vector store only when none is
\* persisted; a full sync (entered as first run or by --force-full) that
\* registered a file always creates a new one, whether or not one is persisted,
\* and once its attach completed the new id replaces the persisted one.
C25_CollectionCreation ==
    /\ (run.path = "delta" /\ "create_vector_store" \in run.calls) =>
           /\ run.vs0 = None
           /\ run.new.ran
    /\ (run.path = "full" /\ run.registered # {}) =>
           "create_vector_store" \in run.calls
    /\ (run.path = "full" /\ run.full.processed # {}) =>
           /\ vector_store_info_file = now
           /\ vector_store_info_file # run.vs0

C25_Witness ==
    /\ pc = "done"
    /\ run.path = "full"
    /\ run.vs0 # None
    /\ "create_vector_store" \in run.calls
    /\ vector_store_info_file # run.vs0

\* C25 (as claimed): no run of any kind creates a vector store while one is
\* persisted.
C25_CreatedOnce ==
    "create_vector_store" \in run.calls => run.vs0 = None

\* C26: every article handed to the new or the updated pipeline ends it either
\* committed (among the processed articles the pipeline returns) or failed
\* (among the failures it returns), and not both.
C26_TerminalOutcome ==
    \A p \in {run.new, run.updated} :
        p.ran =>
            /\ p.batch = p.processed \cup p.failed
            /\ p.processed \cap p.failed = {}

\* C27: in the new pipeline an article whose fetch or save fails is recorded as
\* a failure and is not in the batch handed to the upload, and every other
\* article of the pipeline is in that batch.
C27_FetchIsolation ==
    run.new.ran =>
        /\ run.new.fetched = run.new.batch
        /\ run.new.fetchFail \subseteq run.new.failed
        /\ run.new.fetchFail \cap run.new.saved = {}
        /\ \A k \in run.new.fetchFail : FileId(now, k) \notin run.registered
        /\ run.new.saved = run.new.batch \ run.new.fetchFail
        /\ run.new.saved # {} <=> (run.new.ops # <<>> /\ run.new.ops[1] = "register")

C27_Witness ==
    /\ pc = "updated"
    /\ run.new.fetchFail # {}
    /\ run.new.saved # {}
    /\ run.new.processed = run.new.saved

\* C28: the updated pipeline makes its requests in the order detach (old ids),
\* delete (old files), register, attach (the attach request only when a file was
\* registered); a failure of the detach or the delete aborts nothing: register
\* and attach are still made, and the articles whose new file was attached have
\* it as their mapping entry in place of the old one.
C28_UpdatedOrder ==
    (run.updated.ran /\ run.updated.saved # {}) =>
        /\ run.updated.old # {}
        /\ run.updated.ops =
               IF run.updated.saved = run.updated.upFail
               THEN <<"detach", "delete", "register">>
               ELSE <<"detach", "delete", "register", "attach">>
        /\ (run.updated.attach = "completed" /\ pc \in {"deleted", "save", "done"}) =>
               /\ run.updated.processed = run.updated.saved \ run.updated.upFail
               /\ \A k \in run.updated.processed :
                      /\ file_mapping[k] = FileId(now, k)
                      /\ file_mapping[k] # run.mapping0[k]

C28_Witness ==
    /\ pc = "done"
    /\ run.mapWritten
    /\ run.updated.cleanupFail
    /\ run.updated.attach = "completed"
    /\ run.updated.processed # {}

\* C29: in the deleted pipeline the detach and delete requests are made for the
\* file ids of exactly the ids whose .md files were removed; an id whose removal
\* raised is recorded as a failure, its file id is in neither request, and its
\* mapping entry is still there after the removal from the mapping and after
\* the mapping is written.
C29_DeletedCleanup ==
    (run.deleted.ran /\ pc \in {"save", "done"}) =>
        /\ run.deleted.old = {run.mapping0[k] : k \in run.deleted.processed}
        /\ run.deleted.processed \cap run.deleted.fetchFail = {}
        /\ \A k \in run.deleted.fetchFail :
               DictGet(run.mapping0, k) # None =>
                   /\ k \in run.deleted.failed
                   /\ run.mapping0[k] \notin run.deleted.old
                   /\ k \in DOMAIN file_mapping
                   /\ file_mapping[k] = run.mapping0[k]
                   /\ (pc = "done" /\ run.mapWritten) =>
                          /\ k \in DOMAIN file_mapping_file
                          /\ file_mapping_file[k] = run.mapping0[k]

C29_Witness ==
    /\ pc = "done"
    /\ run.mapWritten
    /\ run.deleted.failed # {}
    /\ run.deleted.processed # {}
    /\ run.deleted.ops = <<"detach", "delete">>

\* C30: in the deleted pipeline a tracked id with no .md file is not an error:
\* it is among the ids the pipeline returns as removed and not among its
\* failures, its file id is handed to the detach and delete requests, and it is
\* removed from the mapping, in memory and in the mapping written.
C30_NoLocalArtifact ==
    (run.deleted.ran /\ pc \in {"save", "done"}) =>
        \A k \in run.deleted.batch \ run.deleted.local :
            DictGet(run.mapping0, k) # None =>
                /\ k \in run.deleted.processed
                /\ k \notin run.deleted.failed
                /\ run.mapping0[k] \in run.deleted.old
                /\ run.deleted.ops = <<"detach", "delete">>
                /\ k \notin DOMAIN file_mapping
                /\ (pc = "done" /\ run.mapWritten) => k \notin DOMAIN file_mapping_file

C30_Witness ==
    /\ pc = "done"
    /\ run.mapWritten
    /\ \E k \in run.deleted.batch \ run.deleted.local :
        /\ k \in DOMAIN run.mapping0
        /\ run.mapping0[k] \in run.deleted.old
        /\ k \notin DOMAIN file_mapping_file
    /\ run.deleted.local # {}

\* C31: without a last-run timestamp detect_changes classifies no article as
\* updated: every listed article whose id is in the mapping is unchanged,
\* whatever its updated_at.
C31_NoMarkerNoUpdated ==
    (pc = "detect_out" /\ last_run_timestamp = None) =>
        /\ changes.updated = <<>>
        /\ \A i \in DOMAIN articles :
               articles[i].id \in DOMAIN file_mapping =>
                   /\ Occurs(changes.unchanged, articles[i]) # {}
                   /\ Occurs(changes.new, articles[i]) = {}

C31_Witness ==
    /\ pc = "detect_out"
    /\ last_run_timestamp = None
    /\ \E i, j \in DOMAIN articles :
        /\ articles[i].id \in DOMAIN file_mapping
        /\ articles[j].id \in DOMAIN file_mapping
        /\ articles[i].updated_at # articles[j].updated_at
        /\ Occurs(changes.unchanged, articles[i]) # {}
        /\ Occurs(changes.unchanged, articles[j]) # {}

\* C32: after any run that returns success, full or incremental and whatever
\* the state it started from, last_run.txt exists; the same holds once the
\* process has exited reporting that success.
C32_MarkerAfterSuccess ==
    /\ (pc = "done" /\ success = TRUE) => last_run_file # None
    /\ (pc = "idle" /\ exited.entry \in EntryPoints /\ exited.success = TRUE) =>
           last_run_file # None

C32_Witness ==
    /\ pc = "done"
    /\ success = TRUE
    /\ run.path = "full"
    /\ run.marker0 = None
    /\ run.tsWritten
    /\ last_run_file = now

\* What the next run detects when the source is not touched again before it:
\* it loads the two state files and lists the source as it is now.
NextRunChangesAtSource ==
    detect_changes(fetch_articles_list(source, max_articles, None).articles,
                   file_mapping_file, last_run_file)

\* C33: no update is missed because of when the timestamp is taken: an article
\* edited at the source after an incremental run took its listing and before
\* that run wrote last_run.txt is classified updated by the next run (stated
\* for an article that is tracked when the run ends).
C33_LateEditDetected ==
    (pc = "done" /\ run.path = "delta" /\ run.tsWritten) =>
        \A k \in run.lateEdits :
            k \in DOMAIN file_mapping_file =>
                k \in IdsOf(NextRunChangesAtSource.updated)

\* C34: an incremental run whose change detection finds no new, no updated and
\* no deleted article returns success with no request to the index service and
\* no write of file_mapping.json or last_run.txt: the three state files and the
\* articles directory are as the run found them.
C34_NoChangeNoEffect ==
    (pc = "done" /\ run.path = "delta" /\ ~ListingFailed(articles)
                 /\ run.totalChanges = 0) =>
        /\ success = TRUE
        /\ run.calls = {}
        /\ run.registered = {}
        /\ run.steps = <<>>
        /\ ~run.mapWritten /\ ~run.mapWriteFailed
        /\ ~run.tsWritten /\ ~run.tsWriteFailed
        /\ file_mapping_file = run.mapping0
        /\ last_run_file = run.marker0
        /\ vector_store_info_file = run.vs0
        /\ file_mapping = run.mapping0

C34_Witness ==
    /\ pc = "done"
    /\ run.path = "delta"
    /\ Len(articles) = 2
    /\ changes.new = <<>> /\ changes.updated = <<>> /\ changes.deleted = {}
    /\ Len(changes.unchanged) = 2
    /\ success = TRUE
    /\ now > run.marker0

\* C35: an incremental run whose listing returns no article while the mapping
\* is not empty returns failure: no tracked id is classified deleted, no mapping
\* entry is removed in memory or on disk, no request goes to the index service
\* and last_run.txt is not written.
C35_EmptyListingFails ==
    (pc = "done" /\ run.path = "delta" /\ articles = <<>>) =>
        /\ run.mapping0 # EmptyMap
        /\ success = FALSE
        /\ changes = NoChanges
        /\ run.calls = {}
        /\ run.steps = <<>>
        /\ file_mapping = run.mapping0
        /\ file_mapping_file = run.mapping0
        /\ last_run_file = run.marker0
        /\ vector_store_info_file = run.vs0
        /\ ~run.mapWritten /\ ~run.tsWritten

C35_Witness ==
    /\ pc = "done"
    /\ run.path = "delta"
    /\ articles = <<>>
    /\ ~run.listError
    /\ \A i \in Ids : source[i] = None
    /\ Cardinality(DOMAIN run.mapping0) = 2
    /\ success = FALSE

\* The new articles of the run whose upload and attach succeeded, and the
\* deleted ids whose local removal succeeded.
NewSucceeded ==
    IF run.new.attach = "completed" THEN run.new.saved \ run.new.upFail ELSE {}

DeletedRemoved == run.deleted.batch \ run.deleted.fetchFail

\* C36: through an incremental run the key set of the mapping is the keys
\* loaded at the start, plus the ids of the new articles that succeeded, minus
\* the deleted ids whose local removal succeeded, in memory and in the file
\* written at step 6; the updated pipeline adds and removes no key, and the
\* commit of the new pipeline leaves every entry loaded at the start as it was.
C36_KeySet ==
    run.path = "delta" =>
        /\ pc = "updated" =>
               /\ DOMAIN file_mapping = DOMAIN run.mapping0 \cup NewSucceeded
               /\ \A k \in DOMAIN run.mapping0 : file_mapping[k] = run.mapping0[k]
        /\ pc = "deleted" =>
               DOMAIN file_mapping = DOMAIN run.mapping0 \cup NewSucceeded
        /\ pc \in {"save", "done"} =>
               DOMAIN file_mapping =
                   (DOMAIN run.mapping0 \cup NewSucceeded) \ DeletedRemoved
        /\ (pc = "done" /\ run.mapWritten) =>
               DOMAIN file_mapping_file =
                   (DOMAIN run.mapping0 \cup NewSucceeded) \ DeletedRemoved
        /\ pc \in {"updated", "deleted", "save", "done"} =>
               \A k \in DOMAIN run.mapping0 \ (run.updated.processed \cup DeletedRemoved) :
                   DictGet(file_mapping, k) = run.mapping0[k]

C36_Witness ==
    /\ pc = "done"
    /\ run.path = "delta"
    /\ run.mapWritten
    /\ NewSucceeded # {}
    /\ DeletedRemoved # {}
    /\ DOMAIN file_mapping_file = NewSucceeded
    /\ DOMAIN run.mapping0 = DeletedRemoved

\* C37: in the updated pipeline the old file id of an article whose fetch or
\* save failed, or that has no entry in the mapping, is not in the batch handed
\* to the detach and delete requests, its mapping entry is as loaded and the
\* article is reported failed; when no article was saved the pipeline makes no
\* request to the index service at all.
C37_FailedUntouched ==
    (run.updated.ran /\ pc \in {"deleted", "save", "done"}) =>
        /\ \A k \in run.updated.batch \ run.updated.saved :
               /\ DictGet(run.mapping0, k) \notin run.updated.old
               /\ DictGet(file_mapping, k) = DictGet(run.mapping0, k)
               /\ k \in run.updated.failed
        /\ None \notin run.updated.old
        /\ run.updated.saved = {} =>
               /\ run.updated.ops = <<>>
               /\ run.updated.old = {}
               /\ run.updated.processed = {}

C37_Witness ==
    /\ pc = "deleted"
    /\ run.updated.ran
    /\ \E k, j \in run.updated.batch :
        /\ k \in run.updated.fetchFail
        /\ DictGet(run.mapping0, k) # None
        /\ j \in run.updated.saved
        /\ run.updated.old = {run.mapping0[j]}
        /\ run.updated.ops = <<"detach", "delete", "register", "attach">>

====
